---- MODULE Spec2Model ----
(***************************************************************************)
(* Model of the fork-service action: the readiness poller                  *)
(* (src/poll.ts, waitForServiceReady), the transport it queries through    *)
(* (api.ts, makeRequest / getService / forkService), the fork phase        *)
(* (main.ts, run) and the teardown phase (main.ts, post).  Times are       *)
(* milliseconds, messages are the strings the code builds.                 *)
(***************************************************************************)
EXTENDS Integers, Sequences, FiniteSets, TLC

VARIABLES
    pc,            \* position of waitForServiceReady: idle, await_getService, await_sleep, returned, thrown
    pollArgs,      \* projectId, serviceId and apiKey arguments of waitForServiceReady
    timeoutMs,     \* timeoutMs argument
    intervalMs,    \* intervalMs argument
    logIntervalMs, \* logIntervalMs argument
    startTime,     \* const startTime
    nextLogTime,   \* let nextLogTime
    now,           \* const now of the current iteration
    elapsed,       \* const elapsed of the current iteration
    pollError,     \* message of the Error waitForServiceReady rejected with
    clock,         \* Date.now()
    issued,        \* getService requests issued
    settled,       \* getService requests that resolved or rejected
    timers,        \* setTimeout timers armed by sleep() and not yet fired
    emitted,       \* core.info / core.warning / core.debug calls of the last step
    h,             \* observations of the poll (counters and snapshots)
    rpc,           \* position of run(): init, await_forkService, await_poll, done
    inputs,        \* what core.getInput returns for each input name
    forkRequest,   \* the request object passed to forkService
    forkCalls,     \* the arguments of each call of forkService
    waitCalls,     \* the arguments of each call of waitForServiceReady made by run()
    forkedService, \* the resolved value of forkService
    failed,        \* messages passed to core.setFailed, in order
    outputs,       \* core.setOutput calls, in order
    secrets,       \* values passed to core.setSecret
    savedState,    \* core.saveState calls, in order
    ppc,           \* position of post(): idle, init, await_deleteService, done
    state,         \* what core.getState returns for each name
    deleteCalls,   \* the arguments of each call of deleteService
    postLog,       \* core.info / core.warning calls of post(), in order
    call,          \* a call of makeRequest: method, endpoint and what fetch delivers
    settlement     \* what that call of makeRequest settled with

pollVars == <<pc, pollArgs, timeoutMs, intervalMs, logIntervalMs, startTime,
              nextLogTime, now, elapsed, pollError, clock, issued, settled, timers, h>>
postVars == <<ppc, state, deleteCalls, postLog>>
transportVars == <<call, settlement>>
runVars == <<rpc, inputs, forkRequest, forkCalls, waitCalls, forkedService, failed,
             outputs, secrets, savedState, postVars, transportVars>>
vars == <<pollVars, emitted, runVars>>

-----------------------------------------------------------------------------
(* Bounds of the model *)

MaxTimeout == 3      \* timeoutMs ranges over 0..MaxTimeout
MaxInterval == 2     \* intervalMs ranges over 1..MaxInterval
MaxLogInterval == 2  \* logIntervalMs ranges over 1..MaxLogInterval
MaxLatency == 1      \* a status query takes 0..MaxLatency ms (or stalls)
MaxJitter == 1       \* a timer fires 0..MaxJitter ms late
MaxQueries == 6      \* cap on the status queries of one poll

-----------------------------------------------------------------------------
(* Strings *)

\* String.prototype.includes
Includes(s, sub) ==
    \E i \in 1..(Len(s) - Len(sub) + 1) : SubSeq(s, i, i + Len(sub) - 1) = sub

UpperChars == "ABCDEFGHIJKLMNOPQRSTUVWXYZ"
LowerChars == "abcdefghijklmnopqrstuvwxyz"

LowerChar(c) ==
    IF \E i \in 1..Len(UpperChars) : SubSeq(UpperChars, i, i) = c
    THEN LET i == CHOOSE j \in 1..Len(UpperChars) : SubSeq(UpperChars, j, j) = c
         IN SubSeq(LowerChars, i, i)
    ELSE c

\* String.prototype.toLowerCase
RECURSIVE ToLowerCase(_)
ToLowerCase(s) ==
    IF Len(s) = 0 THEN ""
    ELSE LowerChar(SubSeq(s, 1, 1)) \o ToLowerCase(SubSeq(s, 2, Len(s)))

\* `${ms / 1000}`: the decimal form of a whole number of thousandths
DivThousandStr(ms) ==
    LET ip == ms \div 1000
        fp == ms % 1000
        d1 == ToString(fp \div 100)
        d2 == ToString((fp \div 10) % 10)
        d3 == ToString(fp % 10)
    IN  IF fp = 0 THEN ToString(ip)
        ELSE IF fp % 10 # 0 THEN ToString(ip) \o "." \o d1 \o d2 \o d3
        ELSE IF fp % 100 # 0 THEN ToString(ip) \o "." \o d1 \o d2
        ELSE ToString(ip) \o "." \o d1

\* Math.round(ms / 1000) for ms >= 0
RoundSeconds(ms) == (ms + 500) \div 1000

\* the value of a property the object does not have
Undefined == "<undefined>"

\* `${v}` in a template literal
Str(v) == IF v = Undefined THEN "undefined" ELSE v

\* obj.key
Get(obj, key) == IF key \in DOMAIN obj THEN obj[key] ELSE Undefined

\* the truthiness of a string-or-undefined value
Truthy(v) == v # Undefined /\ v # ""

-----------------------------------------------------------------------------
(* Transport: api.ts *)

API_BASE_URL == "https://console.cloud.timescale.com/public/api/v1"

\* the object JSON.parse("{}") and `{} as T` yield
EmptyObject == [k \in {} |-> ""]

\* What fetch and response.text() deliver for one request: network is the
\* message fetch rejected with ("" when it resolved); text is the body, isJson
\* and json say what JSON.parse makes of it.
HttpReply(network, status, statusText, text, isJson, json) ==
    [network |-> network, status |-> status, statusText |-> statusText,
     text |-> text, isJson |-> isJson, json |-> json]

\* response.ok
ResponseOk(status) == status >= 200 /\ status <= 299

\* the SyntaxError of JSON.parse
JsonSyntaxError(text) ==
    "Unexpected token '" \o SubSeq(text, 1, 1) \o "', \"" \o text \o "\" is not valid JSON"

\* responseText.substring(0, 500)
Substring500(text) == SubSeq(text, 1, IF Len(text) < 500 THEN Len(text) ELSE 500)

\* the message of the Error thrown for a non-2xx response
ApiErrorMessage(method, url, reply) ==
    LET errorMessage == "API request failed: " \o method \o " " \o url \o " returned "
                           \o ToString(reply.status) \o " " \o reply.statusText
        errorData == reply.json
    IN  IF reply.text = "" THEN errorMessage
        ELSE IF reply.isJson
        THEN IF Truthy(Get(errorData, "message"))
             THEN "API Error ("
                    \o (IF Truthy(Get(errorData, "code")) THEN errorData.code
                        ELSE ToString(reply.status))
                    \o "): " \o errorData.message
             ELSE errorMessage
        ELSE errorMessage \o "\nResponse: " \o Substring500(reply.text)

\* makeRequest: the value the promise resolves with, or the message of the
\* Error it rejects with
MakeRequest(method, endpoint, reply) ==
    LET url == API_BASE_URL \o endpoint
    IN  IF reply.network # ""
        THEN [ok |-> FALSE, value |-> EmptyObject,
              message |-> "Network request failed for " \o method \o " " \o url \o ": "
                            \o reply.network \o ". "
                            \o "Please check your network connection and verify the API endpoint is accessible."]
        ELSE IF ~ResponseOk(reply.status)
        THEN [ok |-> FALSE, value |-> EmptyObject,
              message |-> ApiErrorMessage(method, url, reply)]
        ELSE IF reply.text = ""
        THEN [ok |-> TRUE, value |-> EmptyObject, message |-> ""]
        ELSE IF reply.isJson
        THEN [ok |-> TRUE, value |-> reply.json, message |-> ""]
        ELSE [ok |-> FALSE, value |-> EmptyObject, message |-> JsonSyntaxError(reply.text)]

GetService(projectId, serviceId, reply) ==
    MakeRequest("GET", "/projects/" \o Str(projectId) \o "/services/" \o Str(serviceId), reply)

ForkService(projectId, serviceId, reply) ==
    MakeRequest("POST",
                "/projects/" \o Str(projectId) \o "/services/" \o Str(serviceId) \o "/forkService",
                reply)

-----------------------------------------------------------------------------
(* The environment of a poll: what a status query can come back with *)

DeployStatus == {"QUEUED", "DELETING", "CONFIGURING", "READY", "DELETED", "UNSTABLE",
                 "PAUSING", "PAUSED", "RESUMING", "UPGRADING", "OPTIMIZING"}

\* values the type does not list but the API may send
UnlistedStatus == {"MIGRATING", "ready"}

\* a 200 response whose body is a service with the given status
StatusReply(serviceId, status) ==
    HttpReply("", 200, "OK",
              "{\"service_id\":\"" \o serviceId \o "\",\"status\":\"" \o status \o "\"}",
              TRUE, [service_id |-> serviceId, status |-> status])

\* the endpoint a service has once it is up
ReadyEndpoint == [host |-> "ready-fork.timescaledb.io", port |-> 5433]

\* a 200 response whose body is a READY service with its endpoint
ReadyReplyWithEndpoint(serviceId) ==
    HttpReply("", 200, "OK",
              "{\"service_id\":\"" \o serviceId \o "\",\"status\":\"READY\","
                \o "\"endpoint\":{\"host\":\"ready-fork.timescaledb.io\",\"port\":5433}}",
              TRUE, [service_id |-> serviceId, status |-> "READY", endpoint |-> ReadyEndpoint])

\* the 2xx responses: a service in some status, a READY service with its
\* endpoint, an empty body, a service without a status
StatusReplies(serviceId) ==
    {StatusReply(serviceId, st) : st \in DeployStatus \cup UnlistedStatus}
    \cup {ReadyReplyWithEndpoint(serviceId)}
    \cup {HttpReply("", 200, "OK", "", FALSE, EmptyObject),
          HttpReply("", 200, "OK", "{\"service_id\":\"" \o serviceId \o "\"}", TRUE,
                    [service_id |-> serviceId])}

FailureReplies ==
    {HttpReply("fetch failed", 0, "", "", FALSE, EmptyObject),
     HttpReply("", 200, "OK", "<html>", FALSE, EmptyObject),
     HttpReply("", 500, "Internal Server Error",
               "{\"code\":\"INTERNAL\",\"message\":\"internal error\"}", TRUE,
               [code |-> "INTERNAL", message |-> "internal error"]),
     HttpReply("", 404, "Not Found", "{\"message\":\"service not found\"}", TRUE,
               [message |-> "service not found"]),
     HttpReply("", 503, "Service Unavailable", "upstream unavailable", FALSE, EmptyObject),
     HttpReply("", 504, "Gateway Timeout", "", FALSE, EmptyObject),
     HttpReply("", 409, "Conflict",
               "{\"code\":\"CONFLICT\",\"message\":\"service is in a terminal state\"}", TRUE,
               [code |-> "CONFLICT", message |-> "service is in a terminal state"])}

\* the time a status query takes: a few milliseconds, or a stall of half an hour
StallMs == 30 * 60 * 1000
Latencies == (0..MaxLatency) \cup {StallMs}

\* the time by which a timer fires late
Jitters == 0..MaxJitter

-----------------------------------------------------------------------------
(* The readiness poller: poll.ts *)

\* (mutant) UNSTABLE left out of the list
TERMINAL_ERROR_STATES_DeletedOnly == {"DELETED"}

\* (mutant) states that are not final taken for terminal
TERMINAL_ERROR_STATES_WithPaused == {"DELETED", "UNSTABLE", "PAUSED", "DELETING"}

TERMINAL_ERROR_STATES == {"DELETED", "UNSTABLE"}

TimeoutMessage(serviceId, timeout) ==
    "Timeout: Service " \o serviceId \o " did not become ready within "
        \o DivThousandStr(timeout) \o " seconds"

TerminalMessage(serviceId, status) ==
    "Service " \o serviceId \o " entered terminal state: " \o Str(status)

WaitingMessage(serviceId, timeout) ==
    "Waiting for service " \o serviceId \o " to be ready (timeout: "
        \o DivThousandStr(timeout) \o "s)..."

DebugMessage(serviceId, status, secs) ==
    "Service " \o serviceId \o " status: " \o Str(status)
        \o " (elapsed: " \o ToString(secs) \o "s)"

ReadyMessage(serviceId, secs) ==
    "Service " \o serviceId \o " is ready! (took " \o ToString(secs) \o "s)"

ProgressMessage(serviceId, status, secs) ==
    "Service " \o serviceId \o " status: " \o Str(status)
        \o ". Still waiting... (elapsed: " \o ToString(secs) \o "s)"

RetryMessage(message) ==
    "Error checking service status: " \o message \o ". Will retry..."

Log(level, message) == [level |-> level, message |-> message]

\* The observations of a poll.  sleeps, warnings and progress count the calls
\* of sleep, of core.warning and of the "Still waiting" core.info; inProgress
\* and failures count the queries that returned a status that is neither READY
\* nor DELETED nor UNSTABLE and the queries that failed; lastStatus and
\* lastError are what the last settled query returned or failed with and
\* lastService is the service it returned (empty when it failed); gap is
\* the number of sleeps between the last two queries; end is the snapshot taken
\* when the poll first observes READY, DELETED or UNSTABLE, a deadline that
\* has passed at the top of the loop, or an error that it rethrows.
NoEnd == [kind |-> "none", issued |-> 0, sleeps |-> 0, warnings |-> 0, progress |-> 0,
          elapsedMs |-> 0]

InitH == [sleeps |-> 0, warnings |-> 0, progress |-> 0,
          iterQueries |-> 0, inProgress |-> 0, failures |-> 0,
          lastStatus |-> "", lastError |-> "", lastService |-> EmptyObject, sleepsSince |-> 0, gap |-> 0,
          end |-> NoEnd]

\* the counters as they stand when the poll first observes what ends it
EndOf(kind, hh, elapsedMs) ==
    IF hh.end.kind # "none" THEN hh.end
    ELSE [kind |-> kind, issued |-> issued, sleeps |-> hh.sleeps,
          warnings |-> hh.warnings, progress |-> hh.progress, elapsedMs |-> elapsedMs]

\* what the observation of a status means for the poll
Observed(status) ==
    IF status = "READY" THEN "ready"
    ELSE IF status = "DELETED" \/ status = "UNSTABLE" THEN "terminal"
    ELSE "none"

\* the snapshot of an iteration that starts at clk: taken when clk is beyond
\* start + timeout
LateAt(clk, start, timeout, hh) ==
    IF clk > start + timeout THEN EndOf("deadline", hh, clk - start) ELSE hh.end

\* (mutant) no deadline at all
DeadlinePassed_Never(clk, start, timeout) == FALSE

\* (mutant) the deadline compared with >= instead of >
DeadlinePassed_AtOrAfter(clk, start, timeout) == clk - start >= timeout

\* now - startTime > timeoutMs
DeadlinePassed(clk, start, timeout) == clk - start > timeout

\* The top of the loop up to the await of getService, entered at time clk with
\* the observations hh.
LoopTop(clk, start, timeout, serviceId, hh) ==
    /\ now' = clk
    /\ elapsed' = RoundSeconds(clk - start)
    /\ IF DeadlinePassed(clk, start, timeout)
       THEN /\ pc' = "thrown"
            /\ pollError' = TimeoutMessage(serviceId, timeout)
            /\ issued' = issued
            /\ h' = [hh EXCEPT !.iterQueries = 0, !.end = LateAt(clk, start, timeout, hh)]
       ELSE /\ issued < MaxQueries
            /\ pc' = "await_getService"
            /\ pollError' = pollError
            /\ issued' = issued + 1
            /\ h' = [hh EXCEPT !.iterQueries = 1,
                               !.gap = hh.sleepsSince, !.sleepsSince = 0,
                               !.end = LateAt(clk, start, timeout, hh)]

\* waitForServiceReady(projectId, serviceId, apiKey, timeout, interval, logInterval)
\* up to its first await
WaitForServiceReady(projectId, serviceId, apiKey, timeout, interval, logInterval, em) ==
    /\ pc = "idle"
    /\ pollArgs' = [projectId |-> projectId, serviceId |-> serviceId, apiKey |-> apiKey]
    /\ timeoutMs' = timeout
    /\ intervalMs' = interval
    /\ logIntervalMs' = logInterval
    /\ startTime' = clock
    /\ nextLogTime' = clock + logInterval
    /\ emitted' = em \o <<Log("info", WaitingMessage(serviceId, timeout))>>
    /\ LoopTop(clock, clock, timeout, serviceId, InitH)
    /\ UNCHANGED <<clock, settled, timers>>


\* The environment of the poll at hand: every reply for a poll on its own, a
\* few of each kind for the poll inside run()
PollReplies ==
    IF rpc = "harness" THEN StatusReplies(pollArgs.serviceId) \cup FailureReplies
    ELSE {StatusReply(pollArgs.serviceId, st) : st \in {"CONFIGURING", "READY", "UNSTABLE"}}
         \cup {ReadyReplyWithEndpoint(pollArgs.serviceId)}
         \cup {r \in FailureReplies : r.status \in {500, 504}}

PollLatencies == IF rpc = "harness" THEN Latencies ELSE {0, StallMs}

PollJitters == IF rpc = "harness" THEN Jitters ELSE {0}

\* (mutant) the timer armed without the delay
SleepDelay_Zero(ms) == 0

\* setTimeout(resolve, ms): the delay the timer is armed with
SleepDelay(ms) == ms

\* (mutant) sleep(intervalMs) without await: the loop goes on at once
AwaitSleep_NotAwaited(hh) ==
    /\ timers' = timers + 1
    /\ LoopTop(clock', startTime, timeoutMs, pollArgs.serviceId,
               [hh EXCEPT !.sleeps = @ + 1, !.sleepsSince = @ + 1])

\* await sleep(intervalMs): arms one timer and suspends the loop until it fires
AwaitSleep(hh) ==
    /\ timers' = timers + 1
    /\ pc' = "await_sleep"
    /\ h' = [hh EXCEPT !.sleeps = @ + 1, !.sleepsSince = @ + 1]
    /\ UNCHANGED <<now, elapsed, issued, pollError>>

\* (mutant) the status compared with the wrong literal
IsReady_WrongLiteral(status) == status = "ready"

\* service.status === 'READY'
IsReady(status) == status = "READY"

\* (mutant) the catch block also rethrows what the transport reports as failed
IsOwnError_AnyFailure(message) ==
    \/ Includes(message, "terminal state")
    \/ Includes(message, "Timeout")
    \/ Includes(message, "failed")

\* the two tests of the catch block that make it rethrow
IsOwnError(message) == Includes(message, "terminal state") \/ Includes(message, "Timeout")

\* The catch block, entered with the message of the caught Error.
Catch(message, em, hh) ==
    IF IsOwnError(message)
    THEN /\ pc' = "thrown"
         /\ pollError' = message
         /\ emitted' = em
         /\ h' = [hh EXCEPT !.end = EndOf("rethrow", hh, clock' - startTime)]
         /\ UNCHANGED <<now, elapsed, issued, timers>>
    ELSE /\ emitted' = em \o <<Log("warning", RetryMessage(message))>>
         /\ AwaitSleep([hh EXCEPT !.warnings = @ + 1])

\* (mutant) a progress line in every iteration
CheckpointReached_Always(clk, checkpoint) == TRUE

\* Date.now() >= nextLogTime
CheckpointReached(clk, checkpoint) == clk >= checkpoint

\* (mutant) the checkpoint reset to one interval after the current time
AdvanceCheckpoint_ResetToNow(checkpoint, clk, logInterval) == clk + logInterval

\* nextLogTime += logIntervalMs
AdvanceCheckpoint(checkpoint, clk, logInterval) == checkpoint + logInterval

\* The try block after getService has resolved with service, at time clk.
Try(service, clk, hh) ==
    LET status == Get(service, "status")
        seen == [hh EXCEPT !.lastStatus = status, !.lastError = "", !.lastService = service,
                           !.inProgress = IF Observed(status) = "none" THEN @ + 1 ELSE @,
                           !.end = IF Observed(status) = "none" THEN hh.end
                                   ELSE EndOf(Observed(status), hh, clk - startTime)]
        debug == <<Log("debug", DebugMessage(pollArgs.serviceId, status, elapsed))>>
    IN  IF IsReady(status)
        THEN /\ emitted' = debug \o <<Log("info", ReadyMessage(pollArgs.serviceId, elapsed))>>
             /\ pc' = "returned"
             /\ h' = seen
             /\ UNCHANGED <<pollError, nextLogTime, timers, now, elapsed, issued>>
        ELSE IF status \in TERMINAL_ERROR_STATES
        THEN /\ Catch(TerminalMessage(pollArgs.serviceId, status), debug, seen)
             /\ UNCHANGED nextLogTime
        ELSE /\ IF CheckpointReached(clk, nextLogTime)
                THEN /\ emitted' = debug \o <<Log("info",
                                      ProgressMessage(pollArgs.serviceId, status, elapsed))>>
                     /\ nextLogTime' = AdvanceCheckpoint(nextLogTime, clk, logIntervalMs)
                     /\ AwaitSleep([seen EXCEPT !.progress = @ + 1])
                ELSE /\ emitted' = debug
                     /\ nextLogTime' = nextLogTime
                     /\ AwaitSleep(seen)

\* await getService(...) resolves
GetServiceResolves ==
    /\ pc = "await_getService"
    /\ issued > settled
    /\ \E reply \in PollReplies, latency \in PollLatencies :
          LET result == GetService(pollArgs.projectId, pollArgs.serviceId, reply)
          IN  /\ result.ok
              /\ clock' = clock + latency
              /\ settled' = settled + 1
              /\ Try(result.value, clock + latency, h)
    /\ UNCHANGED <<pollArgs, timeoutMs, intervalMs, logIntervalMs, startTime>>
    /\ UNCHANGED runVars

\* await getService(...) rejects
GetServiceRejects ==
    /\ pc = "await_getService"
    /\ issued > settled
    /\ \E reply \in PollReplies, latency \in PollLatencies :
          LET result == GetService(pollArgs.projectId, pollArgs.serviceId, reply)
          IN  /\ ~result.ok
              /\ clock' = clock + latency
              /\ settled' = settled + 1
              /\ Catch(result.message, <<>>,
                       [h EXCEPT !.lastStatus = "", !.lastError = result.message,
                                 !.lastService = EmptyObject,
                                 !.failures = @ + 1])
    /\ UNCHANGED <<pollArgs, timeoutMs, intervalMs, logIntervalMs, startTime, nextLogTime>>
    /\ UNCHANGED runVars

\* the timer of sleep(intervalMs) fires and the loop starts its next iteration
SleepFires ==
    /\ pc = "await_sleep"
    /\ timers > 0
    /\ \E jitter \in PollJitters :
          /\ clock' = clock + SleepDelay(intervalMs) + jitter
          /\ timers' = timers - 1
          /\ LoopTop(clock', startTime, timeoutMs, pollArgs.serviceId, h)
    /\ emitted' = <<>>
    /\ UNCHANGED <<pollArgs, timeoutMs, intervalMs, logIntervalMs, startTime, nextLogTime,
                   settled>>
    /\ UNCHANGED runVars

-----------------------------------------------------------------------------
(* A poll on its own: waitForServiceReady called with explicit arguments *)

ServiceIds == {"forked-service-123", "f0rk3ds3rv"}
ClockStarts == {0, 86400000}

NoArgs == [projectId |-> "", serviceId |-> "", apiKey |-> ""]
NoService == EmptyObject

\* post() has not been entered and nothing is persisted
NoState == [cleanup |-> "", forked_service_id |-> "", project_id |-> "", api_key |-> ""]

InitPostVars ==
    /\ ppc = "idle"
    /\ state = NoState
    /\ deleteCalls = <<>>
    /\ postLog = <<>>

\* no call of makeRequest is being looked at
NoCall == [method |-> "", endpoint |-> "", reply |-> HttpReply("", 0, "", "", FALSE, EmptyObject)]
NoResult == [settled |-> FALSE, ok |-> FALSE, value |-> EmptyObject, message |-> ""]

InitTransportVars ==
    /\ call = NoCall
    /\ settlement = NoResult

InitPollVars ==
    /\ pc = "idle"
    /\ pollArgs = NoArgs
    /\ timeoutMs = 0
    /\ intervalMs = 0
    /\ logIntervalMs = 0
    /\ startTime = 0
    /\ nextLogTime = 0
    /\ now = 0
    /\ elapsed = 0
    /\ pollError = ""
    /\ issued = 0
    /\ settled = 0
    /\ timers = 0
    /\ emitted = <<>>
    /\ h = InitH

InitPoll ==
    /\ InitPollVars
    /\ clock \in ClockStarts
    /\ rpc = "harness"
    /\ inputs = EmptyObject
    /\ forkRequest = EmptyObject
    /\ forkCalls = <<>>
    /\ waitCalls = <<>>
    /\ forkedService = NoService
    /\ failed = <<>>
    /\ outputs = <<>>
    /\ secrets = {}
    /\ savedState = <<>>
    /\ InitPostVars
    /\ InitTransportVars

CallWaitForServiceReady ==
    /\ rpc \in {"harness", "fair"}
    /\ \E serviceId \in ServiceIds, timeout \in 0..MaxTimeout,
          interval \in 1..MaxInterval, logInterval \in 1..MaxLogInterval :
          WaitForServiceReady("project-456", serviceId, "public-key:secret-key",
                              timeout, interval, logInterval, <<>>)
    /\ UNCHANGED runVars

NextPoll ==
    \/ CallWaitForServiceReady
    \/ GetServiceResolves
    \/ GetServiceRejects
    \/ SleepFires

SpecPoll == InitPoll /\ [][NextPoll]_vars

\* A poll on its own with its scheduling: the call is made, every request
\* settles and every timer fires.  Its environment is the one of the poll
\* inside run().
InitPollFair ==
    /\ InitPollVars
    /\ clock \in ClockStarts
    /\ rpc = "fair"
    /\ inputs = EmptyObject
    /\ forkRequest = EmptyObject
    /\ forkCalls = <<>>
    /\ waitCalls = <<>>
    /\ forkedService = NoService
    /\ failed = <<>>
    /\ outputs = <<>>
    /\ secrets = {}
    /\ savedState = <<>>
    /\ InitPostVars
    /\ InitTransportVars

SpecPollFair == InitPollFair /\ [][NextPoll]_vars /\ WF_vars(NextPoll)

-----------------------------------------------------------------------------
(* The fork phase: main.ts, run() *)

Digits == "0123456789"

IsDigit(c) == \E i \in 1..Len(Digits) : SubSeq(Digits, i, i) = c

DigitValue(c) == (CHOOSE i \in 1..Len(Digits) : SubSeq(Digits, i, i) = c) - 1

\* the number of leading decimal digits of s
RECURSIVE LeadingDigits(_)
LeadingDigits(s) ==
    IF Len(s) = 0 \/ ~IsDigit(SubSeq(s, 1, 1)) THEN 0
    ELSE 1 + LeadingDigits(SubSeq(s, 2, Len(s)))

\* the value of a string of decimal digits
RECURSIVE DigitsValue(_)
DigitsValue(s) ==
    IF Len(s) = 0 THEN 0
    ELSE 10 * DigitsValue(SubSeq(s, 1, Len(s) - 1)) + DigitValue(SubSeq(s, Len(s), Len(s)))

\* parseInt(s, 10) of a trimmed string: an optional sign and the leading digits
ParseInt(s) ==
    LET signed == Len(s) > 0 /\ SubSeq(s, 1, 1) \in {"-", "+"}
        body == IF signed THEN SubSeq(s, 2, Len(s)) ELSE s
        n == LeadingDigits(body)
        magnitude == DigitsValue(SubSeq(body, 1, n))
    IN  IF n = 0 THEN [isNaN |-> TRUE, value |-> 0]
        ELSE [isNaN |-> FALSE,
              value |-> IF signed /\ SubSeq(s, 1, 1) = "-" THEN 0 - magnitude ELSE magnitude]

\* (mutant) the strategy matched without toLowerCase
MapForkStrategy_CaseSensitive(strategy) ==
    IF strategy = "now" THEN [ok |-> TRUE, value |-> "NOW", message |-> ""]
    ELSE IF strategy = "last-snapshot" THEN [ok |-> TRUE, value |-> "LAST_SNAPSHOT", message |-> ""]
    ELSE IF strategy = "timestamp" THEN [ok |-> TRUE, value |-> "PITR", message |-> ""]
    ELSE [ok |-> FALSE, value |-> "",
          message |-> "Invalid forking strategy: " \o strategy
                        \o ". Must be one of: now, last-snapshot, timestamp"]

\* mapForkStrategy: the enum value, or the message of the Error thrown
MapForkStrategy(strategy) ==
    LET lower == ToLowerCase(strategy)
    IN  IF lower = "now" THEN [ok |-> TRUE, value |-> "NOW", message |-> ""]
        ELSE IF lower = "last-snapshot" THEN [ok |-> TRUE, value |-> "LAST_SNAPSHOT", message |-> ""]
        ELSE IF lower = "timestamp" THEN [ok |-> TRUE, value |-> "PITR", message |-> ""]
        ELSE [ok |-> FALSE, value |-> "",
              message |-> "Invalid forking strategy: " \o strategy
                            \o ". Must be one of: now, last-snapshot, timestamp"]

\* core.getInput(name, { required: true }) throws for an input that is empty
RequiredInputs == <<"project_id", "service_id", "api_key", "forking-strategy">>

MissingInputs == SelectSeq(RequiredInputs, LAMBDA name : inputs[name] = "")

TimestampRequiredMessage ==
    "timestamp input is required when using \"timestamp\" forking strategy"

TimestampIgnoredMessage ==
    "timestamp input is ignored when not using \"timestamp\" forking strategy"

\* (mutant) every optional parameter copied into the request, empty or not
OptionalParameters_EmptyKept ==
    [name |-> inputs.name, cpu_millis |-> inputs.cpu_millis,
     memory_gbs |-> inputs.memory_gbs]

\* the optional parameters of the request: name, cpu_millis, memory_gbs, free
OptionalParameters ==
    LET cpuMillis == ParseInt(inputs.cpu_millis)
        memoryGbs == ParseInt(inputs.memory_gbs)
    IN  (IF inputs.name # "" THEN [name |-> inputs.name] ELSE EmptyObject)
        @@ (IF inputs.cpu_millis # "" /\ ~cpuMillis.isNaN
            THEN [cpu_millis |-> cpuMillis.value] ELSE EmptyObject)
        @@ (IF inputs.memory_gbs # "" /\ ~memoryGbs.isNaN
            THEN [memory_gbs |-> memoryGbs.value] ELSE EmptyObject)
        @@ (IF inputs.free # "" THEN [free |-> ToLowerCase(inputs.free) = "true"]
            ELSE EmptyObject)

\* JSON.stringify(forkRequest, null, 2) of the request built so far
StringifyRequest(request) ==
    LET field(key, text) == IF key \in DOMAIN request
                            THEN <<"  \"" \o key \o "\": " \o text>> ELSE <<>>
        quoted(key) == IF key \in DOMAIN request THEN "\"" \o request[key] \o "\"" ELSE ""
        number(key) == IF key \in DOMAIN request THEN ToString(request[key]) ELSE ""
        boolean(key) == IF key \in DOMAIN request /\ request[key] THEN "true" ELSE "false"
        lines == field("fork_strategy", quoted("fork_strategy"))
                 \o field("name", quoted("name"))
                 \o field("cpu_millis", number("cpu_millis"))
                 \o field("memory_gbs", number("memory_gbs"))
                 \o field("free", boolean("free"))
        joined[i \in 0..Len(lines)] ==
            IF i = 0 THEN ""
            ELSE joined[i - 1] \o (IF i = 1 THEN "" ELSE ",") \o "\n" \o lines[i]
    IN  "{" \o joined[Len(lines)] \o "\n}"

\* (mutant) the message wrapped before it is reported
SetFailed_Wrapped(message, em) ==
    /\ failed' = Append(failed, "Action failed: " \o message)
    /\ emitted' = em
    /\ rpc' = "done"

\* the catch block of run(): core.setFailed(error.message)
SetFailed(message, em) ==
    /\ failed' = Append(failed, message)
    /\ emitted' = em
    /\ rpc' = "done"

DefaultTimeoutMs == 30 * 60 * 1000
DefaultIntervalMs == 1 * 1000
DefaultLogIntervalMs == 10 * 1000

\* (mutant) the strategy compared with the input's name instead of the enum's
NeedsTimestamp_WrongEnum(forkStrategy) == forkStrategy = "TIMESTAMP"

\* forkStrategy === 'PITR'
NeedsTimestamp(forkStrategy) == forkStrategy = "PITR"

\* (mutant) target_time set whenever the timestamp input is given
TargetTime_WheneverGiven(forkStrategy) ==
    IF inputs.timestamp # "" THEN [target_time |-> inputs.timestamp] ELSE EmptyObject

\* forkRequest.target_time = timestamp, for the PITR strategy only
TargetTime(forkStrategy) ==
    IF NeedsTimestamp(forkStrategy) THEN [target_time |-> inputs.timestamp] ELSE EmptyObject

\* run() up to the await of forkService
RunStart ==
    /\ rpc = "init"
    /\ LET started == <<Log("info", "Starting fork operation for service "
                                      \o inputs.service_id \o "..."),
                        Log("info", "Fork strategy: " \o inputs["forking-strategy"])>>
           mapped == MapForkStrategy(inputs["forking-strategy"])
           forkStrategy == mapped.value
           built == [fork_strategy |-> forkStrategy] @@ OptionalParameters
           debugged == started \o <<Log("info", "DEBUG: free input value: \"" \o inputs.free
                                                   \o "\" (type: string)"),
                                    Log("info", "DEBUG: Fork request body: "
                                                   \o StringifyRequest(built))>>
       IN  IF MissingInputs # <<>>
           THEN /\ SetFailed("Input required and not supplied: " \o Head(MissingInputs), <<>>)
                /\ UNCHANGED <<forkRequest, forkCalls>>
           ELSE IF ~mapped.ok
           THEN /\ SetFailed(mapped.message, started)
                /\ UNCHANGED <<forkRequest, forkCalls>>
           ELSE IF NeedsTimestamp(forkStrategy) /\ inputs.timestamp = ""
           THEN /\ SetFailed(TimestampRequiredMessage, debugged)
                /\ UNCHANGED <<forkRequest, forkCalls>>
           ELSE /\ forkRequest' = built @@ TargetTime(forkStrategy)
                /\ emitted' = debugged
                      \o (IF NeedsTimestamp(forkStrategy)
                          THEN <<Log("info", "Using target time: " \o inputs.timestamp)>>
                          ELSE IF inputs.timestamp # ""
                          THEN <<Log("warning", TimestampIgnoredMessage)>>
                          ELSE <<>>)
                      \o <<Log("info", "Calling fork service API...")>>
                /\ forkCalls' = Append(forkCalls,
                                        [projectId |-> inputs.project_id,
                                         serviceId |-> inputs.service_id,
                                         request |-> forkRequest',
                                         apiKey |-> inputs.api_key])
                /\ rpc' = "await_forkService"
                /\ UNCHANGED failed
    /\ UNCHANGED <<inputs, waitCalls, forkedService, outputs, secrets, savedState>>
    /\ UNCHANGED pollVars
    /\ UNCHANGED postVars
    /\ UNCHANGED transportVars

\* what the fork request can come back with: the whole service, ...
ForkedServiceJson ==
    [service_id |-> "forked-service-123", project_id |-> "project-456", name |-> "test-fork",
     region_code |-> "us-east-1", status |-> "QUEUED",
     endpoint |-> [host |-> "test-fork.timescaledb.io", port |-> 5432],
     initial_password |-> "test-password-123"]

\* ... a service whose endpoint has no port yet, ...
ForkedServiceNoPortJson ==
    [service_id |-> "forked-service-123", project_id |-> "project-456", name |-> "test-fork",
     region_code |-> "us-east-1", status |-> "QUEUED",
     endpoint |-> [host |-> "test-fork.timescaledb.io"],
     initial_password |-> "test-password-123"]

\* ... and a service without the optional endpoint and initial_password
ForkedServiceBareJson ==
    [service_id |-> "f0rk3ds3rv", project_id |-> "project-456", name |-> "bare-fork",
     region_code |-> "us-east-1", status |-> "QUEUED"]

ForkReplies ==
    {HttpReply("", 202, "Accepted",
               "{\"service_id\":\"forked-service-123\",\"project_id\":\"project-456\","
                 \o "\"name\":\"test-fork\",\"region_code\":\"us-east-1\",\"status\":\"QUEUED\","
                 \o "\"endpoint\":{\"host\":\"test-fork.timescaledb.io\",\"port\":5432},"
                 \o "\"initial_password\":\"test-password-123\"}",
               TRUE, ForkedServiceJson),
     HttpReply("", 202, "Accepted",
               "{\"service_id\":\"forked-service-123\",\"project_id\":\"project-456\","
                 \o "\"name\":\"test-fork\",\"region_code\":\"us-east-1\",\"status\":\"QUEUED\","
                 \o "\"endpoint\":{\"host\":\"test-fork.timescaledb.io\"},"
                 \o "\"initial_password\":\"test-password-123\"}",
               TRUE, ForkedServiceNoPortJson),
     HttpReply("", 202, "Accepted",
               "{\"service_id\":\"f0rk3ds3rv\",\"project_id\":\"project-456\","
                 \o "\"name\":\"bare-fork\",\"region_code\":\"us-east-1\",\"status\":\"QUEUED\"}",
               TRUE, ForkedServiceBareJson),
     HttpReply("", 401, "Unauthorized", "{\"message\":\"Unauthorized\"}", TRUE,
               [message |-> "Unauthorized"]),
     HttpReply("fetch failed", 0, "", "", FALSE, EmptyObject)}

\* (mutant) the poll aimed at the parent service
WaitCall_ParentService(service) ==
    [projectId |-> inputs.project_id, serviceId |-> inputs.service_id,
     apiKey |-> inputs.api_key]

\* the arguments of waitForServiceReady(projectId, forkedService.service_id, apiKey)
WaitCall(service) ==
    [projectId |-> inputs.project_id, serviceId |-> Get(service, "service_id"),
     apiKey |-> inputs.api_key]

\* await forkService(...) resolves: run() goes on to call waitForServiceReady
ForkServiceResolves ==
    /\ rpc = "await_forkService"
    /\ \E reply \in ForkReplies :
          LET result == ForkService(inputs.project_id, inputs.service_id, reply)
              service == result.value
              logged == <<Log("info", "Fork initiated successfully! New service ID: "
                                         \o Str(Get(service, "service_id"))),
                          Log("info", "Initial status: " \o Str(Get(service, "status"))),
                          Log("info", "Waiting for forked service to be ready...")>>
              wait == WaitCall(service)
          IN  /\ result.ok
              /\ forkedService' = service
              /\ waitCalls' = Append(waitCalls, wait)
              /\ WaitForServiceReady(wait.projectId, wait.serviceId, wait.apiKey,
                                     DefaultTimeoutMs, DefaultIntervalMs, DefaultLogIntervalMs,
                                     logged)
    /\ rpc' = "await_poll"
    /\ UNCHANGED <<inputs, forkRequest, forkCalls, failed, outputs, secrets, savedState>>
    /\ UNCHANGED postVars
    /\ UNCHANGED transportVars

\* await forkService(...) rejects
ForkServiceRejects ==
    /\ rpc = "await_forkService"
    /\ \E reply \in ForkReplies :
          LET result == ForkService(inputs.project_id, inputs.service_id, reply)
          IN  /\ ~result.ok
              /\ SetFailed(result.message, <<>>)
    /\ UNCHANGED <<inputs, forkRequest, forkCalls, waitCalls, forkedService, outputs, secrets,
                   savedState>>
    /\ UNCHANGED pollVars
    /\ UNCHANGED postVars
    /\ UNCHANGED transportVars

\* await waitForServiceReady(...) rejects
PollRejects ==
    /\ rpc = "await_poll"
    /\ pc = "thrown"
    /\ SetFailed(pollError, <<>>)
    /\ UNCHANGED <<inputs, forkRequest, forkCalls, waitCalls, forkedService, outputs, secrets,
                   savedState>>
    /\ UNCHANGED pollVars
    /\ UNCHANGED postVars
    /\ UNCHANGED transportVars

\* the TypeError of undefined.toString()
ToStringOfUndefinedMessage == "Cannot read properties of undefined (reading 'toString')"

\* core.setOutput(name, value), called while secs are the values registered
\* with core.setSecret
Output(name, value, secs) == [name |-> name, value |-> value, masked |-> value \in secs]

\* (mutant) the password set as an output before it is registered as a secret
EmitPassword_OutputFirst(password, secs) ==
    [secrets |-> secs \cup {password},
     outputs |-> <<Output("initial_password", password, secs)>>]

\* core.setSecret(initial_password), then core.setOutput('initial_password', ...)
EmitPassword(password, secs) ==
    [secrets |-> secs \cup {password},
     outputs |-> <<Output("initial_password", password, secs \cup {password})>>]

\* cleanup.toLowerCase() === 'true'
CleanupRequested(cleanup) == ToLowerCase(cleanup) = "true"

\* (mutant) the parent's service id saved for the cleanup
SavedCleanupState_ParentService(serviceId) ==
    <<[name |-> "forked_service_id", value |-> inputs.service_id],
      [name |-> "project_id", value |-> inputs.project_id],
      [name |-> "api_key", value |-> inputs.api_key],
      [name |-> "cleanup", value |-> "true"]>>

\* (mutant) the flag saved first
SavedCleanupState_FlagFirst(serviceId) ==
    <<[name |-> "cleanup", value |-> "true"],
      [name |-> "forked_service_id", value |-> serviceId],
      [name |-> "project_id", value |-> inputs.project_id],
      [name |-> "api_key", value |-> inputs.api_key]>>

\* the four core.saveState calls, in order
SavedCleanupState(serviceId) ==
    <<[name |-> "forked_service_id", value |-> serviceId],
      [name |-> "project_id", value |-> inputs.project_id],
      [name |-> "api_key", value |-> inputs.api_key],
      [name |-> "cleanup", value |-> "true"]>>

\* (mutant) the outputs taken from the service the poll saw last
EmittedService_LastObserved == h.lastService

\* the service whose fields run() sets as outputs: forkedService
EmittedService == forkedService

\* (mutant) the code after the poll entered however the poll ended
PollSucceeded_AnyEnd == pc \in {"returned", "thrown"}

\* await waitForServiceReady(...) has resolved
PollSucceeded == pc = "returned"

\* await waitForServiceReady(...) resolves: outputs and the state for cleanup
PollResolves ==
    /\ rpc = "await_poll"
    /\ PollSucceeded
    /\ LET serviceId == Get(EmittedService, "service_id")
           endpoint == Get(EmittedService, "endpoint")
           hasEndpoint == "endpoint" \in DOMAIN EmittedService
           hasPort == hasEndpoint /\ "port" \in DOMAIN endpoint
           password == Get(EmittedService, "initial_password")
           withPassword == EmitPassword(password, secrets)
           cleanup == IF inputs.cleanup # "" THEN inputs.cleanup ELSE "false"
       IN  IF hasEndpoint /\ ~hasPort
           THEN \* endpoint.port.toString() throws after two outputs were set
                /\ outputs' = outputs
                     \o <<Output("service_id", serviceId, secrets),
                          Output("host", Get(endpoint, "host"), secrets)>>
                /\ SetFailed(ToStringOfUndefinedMessage, <<>>)
                /\ UNCHANGED <<secrets, savedState>>
           ELSE /\ outputs' = outputs
                     \o <<Output("service_id", serviceId, secrets)>>
                     \o (IF hasEndpoint
                         THEN <<Output("host", Get(endpoint, "host"), secrets),
                                Output("port", ToString(endpoint.port), secrets)>>
                         ELSE <<>>)
                     \o (IF Truthy(password) THEN withPassword.outputs ELSE <<>>)
                /\ secrets' = IF Truthy(password) THEN withPassword.secrets ELSE secrets
                /\ savedState' =
                     IF CleanupRequested(cleanup)
                     THEN savedState \o SavedCleanupState(serviceId)
                     ELSE savedState
                /\ emitted' =
                     <<Log("info", "Fork operation completed successfully! Forked service ID: "
                                     \o Str(serviceId))>>
                     \o (IF hasEndpoint
                         THEN <<Log("info", "Connection: " \o Str(Get(endpoint, "host")) \o ":"
                                               \o ToString(endpoint.port))>>
                         ELSE <<>>)
                     \o (IF CleanupRequested(cleanup)
                         THEN <<Log("info",
                                    "Cleanup is enabled. Service will be deleted after workflow completes.")>>
                         ELSE <<>>)
                /\ rpc' = "done"
                /\ UNCHANGED failed
    /\ UNCHANGED <<inputs, forkRequest, forkCalls, waitCalls, forkedService>>
    /\ UNCHANGED pollVars
    /\ UNCHANGED postVars
    /\ UNCHANGED transportVars

StrategyInputs == {"now", "NOW", "Last-Snapshot", "timestamp", "TimeStamp",
                   "invalid-strategy", "PITR", "last_snapshot", ""}

\* the required inputs given, the strategy 'now', every optional input empty
BaseInputs ==
    ("project_id" :> "project-456") @@ ("service_id" :> "service-789")
       @@ ("api_key" :> "public-key:secret-key")
       @@ ("forking-strategy" :> "now") @@ ("timestamp" :> "")
       @@ ("name" :> "") @@ ("cpu_millis" :> "") @@ ("memory_gbs" :> "")
       @@ ("free" :> "") @@ ("cleanup" :> "")

\* what core.getInput returns for each input of the action: every strategy
\* with and without timestamp and cleanup, and every combination of the
\* optional parameters with the strategies now and timestamp
InputChoices ==
    {[BaseInputs EXCEPT !["forking-strategy"] = strategy, !["timestamp"] = timestamp,
                        !["cleanup"] = cleanup] :
         strategy \in StrategyInputs, timestamp \in {"", "2025-10-01T15:29:00Z"},
         cleanup \in {"", "true", "TRUE", "False"}}
    \cup
    {[BaseInputs EXCEPT !["forking-strategy"] = strategy, !["timestamp"] = timestamp,
                        !["name"] = name, !["cpu_millis"] = cpu, !["memory_gbs"] = memory,
                        !["free"] = free] :
         strategy \in {"now", "TimeStamp"}, timestamp \in {"", "2025-10-01T15:29:00Z"},
         name \in {"", "my-fork"}, cpu \in {"", "2000", "shared"},
         memory \in {"", "8", "shared"}, free \in {"", "true"}}

Init ==
    /\ InitPollVars
    /\ clock = 0
    /\ rpc = "init"
    /\ inputs \in InputChoices
    /\ forkRequest = EmptyObject
    /\ forkCalls = <<>>
    /\ waitCalls = <<>>
    /\ forkedService = NoService
    /\ failed = <<>>
    /\ outputs = <<>>
    /\ secrets = {}
    /\ savedState = <<>>
    /\ InitPostVars
    /\ InitTransportVars

-----------------------------------------------------------------------------
(* The teardown phase: main.ts, post() *)

\* deleteService: the DELETE request on the service's resource
DeleteService(projectId, serviceId, reply) ==
    MakeRequest("DELETE", "/projects/" \o Str(projectId) \o "/services/" \o Str(serviceId),
                reply)

\* what the delete request can come back with
DeleteReplies ==
    {HttpReply("", 204, "No Content", "", FALSE, EmptyObject),
     HttpReply("", 202, "Accepted", "{\"message\":\"Deletion in progress\"}", TRUE,
               [message |-> "Deletion in progress"]),
     HttpReply("fetch failed", 0, "", "", FALSE, EmptyObject),
     HttpReply("", 404, "Not Found",
               "{\"code\":\"NOT_FOUND\",\"message\":\"service not found\"}", TRUE,
               [code |-> "NOT_FOUND", message |-> "service not found"]),
     HttpReply("", 401, "Unauthorized", "", FALSE, EmptyObject),
     HttpReply("", 500, "Internal Server Error", "upstream connect error", FALSE,
               EmptyObject)}

\* (mutant) the flag compared without regard to letter case
CleanupEnabled_AnyCase(cleanup) == ToLowerCase(cleanup) = "true"

\* cleanup === 'true'
CleanupEnabled(cleanup) == cleanup = "true"

\* (mutant) only the service id is looked at
MissingState_ServiceIdOnly(forkedServiceId, projectId, apiKey) == ~Truthy(forkedServiceId)

\* !forkedServiceId || !projectId || !apiKey
MissingState(forkedServiceId, projectId, apiKey) ==
    ~Truthy(forkedServiceId) \/ ~Truthy(projectId) \/ ~Truthy(apiKey)

\* post() up to its first return or the await of deleteService
PostStart ==
    /\ ppc = "init"
    /\ LET cleanup == state.cleanup
           forkedServiceId == state.forked_service_id
           projectId == state.project_id
           apiKey == state.api_key
       IN  IF ~CleanupEnabled(cleanup)
           THEN /\ emitted' = <<Log("info", "Cleanup not enabled, skipping service deletion.")>>
                /\ ppc' = "done"
                /\ UNCHANGED deleteCalls
           ELSE IF MissingState(forkedServiceId, projectId, apiKey)
           THEN /\ emitted' = <<Log("warning",
                                    "Missing required state for cleanup. Skipping service deletion.")>>
                /\ ppc' = "done"
                /\ UNCHANGED deleteCalls
           ELSE /\ emitted' = <<Log("info", "Cleaning up forked service: " \o forkedServiceId)>>
                /\ deleteCalls' = Append(deleteCalls,
                                         [projectId |-> projectId, serviceId |-> forkedServiceId,
                                          apiKey |-> apiKey])
                /\ ppc' = "await_deleteService"
    /\ postLog' = postLog \o emitted'
    /\ UNCHANGED state
    /\ UNCHANGED <<rpc, inputs, forkRequest, forkCalls, waitCalls, forkedService, failed,
                   outputs, secrets, savedState>>
    /\ UNCHANGED pollVars
    /\ UNCHANGED transportVars

\* await deleteService(...) resolves
DeleteServiceResolves ==
    /\ ppc = "await_deleteService"
    /\ \E reply \in DeleteReplies :
          DeleteService(state.project_id, state.forked_service_id, reply).ok
    /\ emitted' = <<Log("info", "Successfully deleted forked service: "
                                   \o state.forked_service_id)>>
    /\ postLog' = postLog \o emitted'
    /\ ppc' = "done"
    /\ UNCHANGED <<state, deleteCalls>>
    /\ UNCHANGED <<rpc, inputs, forkRequest, forkCalls, waitCalls, forkedService, failed,
                   outputs, secrets, savedState>>
    /\ UNCHANGED pollVars
    /\ UNCHANGED transportVars

\* (mutant) the failure of the cleanup reported as a failure of the run
PostCatch_SetFailed(message) ==
    /\ emitted' = <<>>
    /\ failed' = Append(failed, message)
    /\ ppc' = "done"
    /\ UNCHANGED deleteCalls

\* (mutant) the delete request sent again after the warning
PostCatch_Retry(message) ==
    /\ emitted' = <<Log("warning", "Failed to cleanup forked service: " \o message)>>
    /\ deleteCalls' = Append(deleteCalls, deleteCalls[Len(deleteCalls)])
    /\ ppc' = "await_deleteService"
    /\ UNCHANGED failed

\* the catch block of post(): core.warning, never core.setFailed, and post()
\* returns
PostCatch(message) ==
    /\ emitted' = <<Log("warning", "Failed to cleanup forked service: " \o message)>>
    /\ ppc' = "done"
    /\ UNCHANGED <<failed, deleteCalls>>

\* await deleteService(...) rejects
DeleteServiceRejects ==
    /\ ppc = "await_deleteService"
    /\ \E reply \in DeleteReplies :
          LET result == DeleteService(state.project_id, state.forked_service_id, reply)
          IN  /\ ~result.ok
              /\ PostCatch(result.message)
    /\ postLog' = postLog \o emitted'
    /\ UNCHANGED state
    /\ UNCHANGED <<rpc, inputs, forkRequest, forkCalls, waitCalls, forkedService,
                   outputs, secrets, savedState>>
    /\ UNCHANGED pollVars
    /\ UNCHANGED transportVars

\* what core.getState can return for the four names: '' for a name that was
\* never saved
PersistedStates ==
    [cleanup : {"", "true", "false", "True", "1"},
     forked_service_id : {"", "forked-service-123", "f0rk3ds3rv"},
     project_id : {"", "project-456"},
     api_key : {"", "public-key:secret-key"}]

InitPost ==
    /\ InitPollVars
    /\ clock = 0
    /\ rpc = "post"
    /\ inputs = EmptyObject
    /\ forkRequest = EmptyObject
    /\ forkCalls = <<>>
    /\ waitCalls = <<>>
    /\ forkedService = NoService
    /\ failed = <<>>
    /\ outputs = <<>>
    /\ secrets = {}
    /\ savedState = <<>>
    /\ ppc = "init"
    /\ state \in PersistedStates
    /\ deleteCalls = <<>>
    /\ postLog = <<>>
    /\ InitTransportVars

NextPost ==
    \/ PostStart
    \/ DeleteServiceResolves
    \/ DeleteServiceRejects

SpecPost == InitPost /\ [][NextPost]_vars

-----------------------------------------------------------------------------
(* The action from start to end: run(), then post() on what run() saved *)

\* toCommandValue: how core.saveState writes a value down
ToCommandValue(value) == IF value = Undefined THEN "" ELSE value

\* core.getState(name) after the core.saveState calls in saved: the value of
\* the last one under that name, '' when there is none
GetState(saved, name) ==
    LET set == {i \in 1..Len(saved) : saved[i].name = name}
    IN  IF set = {} THEN ""
        ELSE ToCommandValue(saved[CHOOSE i \in set : \A j \in set : j <= i].value)

\* the runner starts post() once run() has ended, failed or not, and hands it
\* the saved state
PostInvoked ==
    /\ rpc = "done"
    /\ ppc = "idle"
    /\ ppc' = "init"
    /\ state' = [name \in DOMAIN NoState |-> GetState(savedState, name)]
    /\ emitted' = <<>>
    /\ UNCHANGED <<deleteCalls, postLog>>
    /\ UNCHANGED <<rpc, inputs, forkRequest, forkCalls, waitCalls, forkedService, failed,
                   outputs, secrets, savedState>>
    /\ UNCHANGED pollVars
    /\ UNCHANGED transportVars

Next ==
    \/ RunStart
    \/ ForkServiceResolves
    \/ ForkServiceRejects
    \/ GetServiceResolves
    \/ GetServiceRejects
    \/ SleepFires
    \/ PollResolves
    \/ PollRejects
    \/ PostInvoked
    \/ PostStart
    \/ DeleteServiceResolves
    \/ DeleteServiceRejects

Spec == Init /\ [][Next]_vars

-----------------------------------------------------------------------------
(* The transport on its own: makeRequest applied to what fetch can deliver *)

\* s repeated n times
RECURSIVE Repeat(_, _)
Repeat(s, n) == IF n = 0 THEN "" ELSE s \o Repeat(s, n - 1)

\* a body of 600 characters that is not JSON
LongBody == Repeat("0123456789abcdefghijklmnopqrst", 20)

\* responses the replies above do not have: error bodies that are JSON without
\* a message, a long body, a message with and without a code
ErrorReplies ==
    {HttpReply("", 500, "Internal Server Error", "{\"error\":\"boom\"}", TRUE,
               [error |-> "boom"]),
     HttpReply("", 400, "Bad Request", "{\"code\":\"INVALID\",\"message\":\"\"}", TRUE,
               [code |-> "INVALID", message |-> ""]),
     HttpReply("", 422, "Unprocessable Entity",
               "{\"code\":\"INVALID\",\"message\":\"invalid fork_strategy\"}", TRUE,
               [code |-> "INVALID", message |-> "invalid fork_strategy"]),
     HttpReply("", 403, "Forbidden", "{\"message\":\"forbidden\"}", TRUE,
               [message |-> "forbidden"]),
     HttpReply("", 502, "Bad Gateway", LongBody, FALSE, EmptyObject),
     HttpReply("", 429, "Too Many Requests", "", FALSE, EmptyObject)}

Calls ==
    [method : {"GET"}, endpoint : {"/projects/project-456/services/forked-service-123"},
     reply : StatusReplies("forked-service-123") \cup FailureReplies \cup ErrorReplies]
    \cup
    [method : {"GET"}, endpoint : {"/projects/project-456/services/f0rk3ds3rv"},
     reply : StatusReplies("f0rk3ds3rv") \cup FailureReplies \cup ErrorReplies]
    \cup
    [method : {"POST"}, endpoint : {"/projects/project-456/services/service-789/forkService"},
     reply : ForkReplies \cup ErrorReplies]
    \cup
    [method : {"DELETE"}, endpoint : {"/projects/project-456/services/forked-service-123"},
     reply : DeleteReplies \cup ErrorReplies]

InitTransport ==
    /\ InitPollVars
    /\ clock = 0
    /\ rpc = "transport"
    /\ inputs = EmptyObject
    /\ forkRequest = EmptyObject
    /\ forkCalls = <<>>
    /\ waitCalls = <<>>
    /\ forkedService = NoService
    /\ failed = <<>>
    /\ outputs = <<>>
    /\ secrets = {}
    /\ savedState = <<>>
    /\ InitPostVars
    /\ call \in Calls
    /\ settlement = NoResult

\* makeRequest(method, endpoint, ...) settles
MakeRequestSettles ==
    /\ rpc = "transport"
    /\ ~settlement.settled
    /\ settlement' = [settled |-> TRUE] @@ MakeRequest(call.method, call.endpoint, call.reply)
    /\ UNCHANGED call
    /\ UNCHANGED <<rpc, inputs, forkRequest, forkCalls, waitCalls, forkedService, failed,
                   outputs, secrets, savedState>>
    /\ UNCHANGED pollVars
    /\ UNCHANGED emitted
    /\ UNCHANGED postVars

NextTransport == MakeRequestSettles

SpecTransport == InitTransport /\ [][NextTransport]_vars

-----------------------------------------------------------------------------
(* Properties of the poller, checked under SpecPoll *)

InFlight == issued - settled

\* nothing has been queried, slept or logged since the snapshot h.end was taken
NothingSinceEnd ==
    /\ issued = h.end.issued
    /\ h.sleeps = h.end.sleeps
    /\ h.warnings = h.end.warnings
    /\ h.progress = h.end.progress
    /\ InFlight = 0
    /\ timers = 0

\* the last step logged neither a retry warning nor a progress line
NoRetryOrProgressLogged ==
    \A i \in 1..Len(emitted) :
        /\ emitted[i].level # "warning"
        /\ ~Includes(emitted[i].message, "Still waiting")

\* C1: waitForServiceReady returns only in an iteration whose query returned
\* READY, and in that same iteration: once READY has been observed the poll
\* has returned and has issued no query, started no sleep and logged no
\* progress line or warning since, whatever is left of the timeout.
C1_ReadyReturnsAtOnce ==
    /\ pc = "returned" => (h.lastStatus = "READY" /\ h.end.kind = "ready")
    /\ h.end.kind = "ready" =>
          (pc = "returned" /\ NothingSinceEnd /\ NoRetryOrProgressLogged)

\* READY observed on the second query, with timeout budget left
C1_Witness ==
    /\ pc = "returned"
    /\ issued = 2
    /\ h.lastStatus = "READY"
    /\ clock - startTime < timeoutMs

\* C2: once a query has returned DELETED or UNSTABLE the poll has failed with
\* an error naming the service id and that status, and it has issued no query,
\* started no sleep and logged no warning since.
C2_TerminalStatusFailsAtOnce ==
    h.lastStatus \in {"DELETED", "UNSTABLE"} =>
        /\ pc = "thrown"
        /\ Includes(pollError, pollArgs.serviceId)
        /\ Includes(pollError, h.lastStatus)
        /\ h.end.kind = "terminal"
        /\ NothingSinceEnd
        /\ NoRetryOrProgressLogged

\* UNSTABLE observed on the second query
C2_Witness ==
    /\ pc = "thrown"
    /\ issued = 2
    /\ h.lastStatus = "UNSTABLE"
    /\ pollError = "Service f0rk3ds3rv entered terminal state: UNSTABLE"

\* C3 as stated: whenever the clock has passed startTime + timeoutMs before the
\* poll ended, the poll ends with the timeout error.
C3_ClockPastDeadlineMeansTimeout ==
    (pc \in {"returned", "thrown"} /\ clock > startTime + timeoutMs) =>
        (pc = "thrown" /\ pollError = TimeoutMessage(pollArgs.serviceId, timeoutMs))

\* C3 (amended): an iteration that starts after startTime + timeoutMs fails
\* with the timeout error, which names the service id and the timeout, and
\* issues no query, and nothing is queried or slept from then on; the timeout
\* error is thrown by such an iteration only, and a query is in flight only
\* from an iteration that started by the deadline.
C3_DeadlineCheckEndsThePoll ==
    /\ h.end.kind = "deadline" =>
          /\ pc = "thrown"
          /\ pollError = TimeoutMessage(pollArgs.serviceId, timeoutMs)
          /\ Includes(pollError, pollArgs.serviceId)
          /\ Includes(pollError, "within " \o DivThousandStr(timeoutMs) \o " seconds")
          /\ h.end.elapsedMs > timeoutMs
          /\ NothingSinceEnd
    /\ (pc = "thrown" /\ Includes(pollError, "did not become ready")) => h.end.kind = "deadline"
    /\ pc = "await_getService" => now - startTime <= timeoutMs

\* the deadline check trips after three queries
C3_Witness ==
    /\ pc = "thrown"
    /\ h.end.kind = "deadline"
    /\ issued = 3
    /\ now - startTime > timeoutMs

\* C4: a failed status query never ends the poll by itself: the poll does not
\* reject with the error of a failed query.
C4_QueryFailuresAreTransient ==
    ~(pc = "thrown" /\ h.lastError # "" /\ pollError = h.lastError)

\* C5: a poll that returns after n >= 1 failed queries and no in-progress
\* status has issued n + 1 queries and logged n warnings; the warning of a
\* failed query carries its error text; and a failure whose message contains
\* neither 'terminal state' nor 'Timeout' never ends the poll.
C5_TransientFailuresAreRetried ==
    /\ (pc = "returned" /\ h.failures >= 1 /\ h.inProgress = 0) =>
          (issued = h.failures + 1 /\ h.warnings = h.failures /\ h.sleeps = h.failures)
    /\ (h.lastError # "" /\ ~Includes(h.lastError, "terminal state")
                         /\ ~Includes(h.lastError, "Timeout")) =>
          /\ h.end.kind \in {"none", "deadline"}
          /\ h.warnings >= 1
          /\ pc = "await_sleep" =>
                (/\ Len(emitted) = 1
                 /\ emitted[1].level = "warning"
                 /\ Includes(emitted[1].message, h.lastError)
                 /\ timers = 1)

\* two failed queries, then READY
C5_Witness ==
    /\ pc = "returned"
    /\ h.failures = 2
    /\ h.inProgress = 0
    /\ issued = 3
    /\ h.warnings = 2

\* C6: a poll that returns after n - 1 in-progress statuses and no failure has
\* issued n queries and slept n - 1 times, once between each two consecutive
\* queries, and returns no earlier than startTime + (n - 1) * intervalMs.
C6_InProgressThenReady ==
    /\ (pc = "returned" /\ h.failures = 0) =>
          /\ issued = h.inProgress + 1
          /\ h.sleeps = h.inProgress
          /\ clock >= startTime + h.inProgress * intervalMs
    /\ pc # "idle" => h.gap = (IF issued >= 2 THEN 1 ELSE 0)

\* [CONFIGURING, CONFIGURING, READY]: three queries, two intervals
C6_Witness ==
    /\ pc = "returned"
    /\ h.failures = 0
    /\ h.inProgress = 2
    /\ issued = 3
    /\ h.sleeps = 2
    /\ clock - startTime >= 2 * intervalMs

\* C7: READY alone ends the poll in success, DELETED and UNSTABLE alone end it
\* in the terminal-state error, and after any other value (a listed status, an
\* unlisted one, no status at all) the poll sleeps and queries again, ending
\* only by the deadline check.
C7_StatusPartition ==
    /\ pc = "returned" => h.lastStatus = "READY"
    /\ (pc = "thrown" /\ Includes(pollError, "entered terminal state")) =>
          h.lastStatus \in {"DELETED", "UNSTABLE"}
    /\ h.lastStatus = "READY" => pc = "returned"
    /\ h.lastStatus \in {"DELETED", "UNSTABLE"} =>
          (pc = "thrown" /\ pollError = TerminalMessage(pollArgs.serviceId, h.lastStatus))
    /\ h.lastStatus \notin {"", "READY", "DELETED", "UNSTABLE"} =>
          \/ pc = "await_sleep" /\ timers = 1 /\ h.sleepsSince = 1
          \/ pc = "await_getService" /\ h.gap = 1
          \/ pc = "thrown" /\ h.end.kind = "deadline"

\* an empty 2xx body: no status, and the poll has slept and queried again
C7_Witness ==
    /\ h.lastStatus = Undefined
    /\ pc = "await_getService"
    /\ issued = 2
    /\ h.gap = 1

\* C8: at most one status query is in flight, an iteration issues at most
\* one, and no query is in flight while a sleep timer is armed (and the other
\* way round).
C8_OneQueryAtATime ==
    /\ InFlight \in {0, 1}
    /\ timers \in {0, 1}
    /\ InFlight + timers <= 1
    /\ h.iterQueries <= 1
    /\ InFlight = 1 <=> pc = "await_getService"
    /\ timers = 1 <=> pc = "await_sleep"

\* the third query in flight
C8_Witness ==
    /\ pc = "await_getService"
    /\ InFlight = 1
    /\ issued = 3
    /\ timers = 0

-----------------------------------------------------------------------------
(* Properties of the fork phase, checked under Spec *)

\* the spellings of the three strategies among the inputs, and what each maps to
ValidStrategies ==
    ("now" :> "NOW") @@ ("NOW" :> "NOW") @@ ("Last-Snapshot" :> "LAST_SNAPSHOT")
        @@ ("timestamp" :> "PITR") @@ ("TimeStamp" :> "PITR")

\* C9: for a strategy input that is none of now, last-snapshot, timestamp in
\* any letter case, run() fails with one error that names the input and calls
\* neither forkService nor waitForServiceReady; for an input that is one of
\* them, run() does not reject the strategy and every fork request carries
\* the enum value NOW, LAST_SNAPSHOT or PITR that belongs to it.
C9_StrategyMapping ==
    LET strategy == inputs["forking-strategy"]
    IN  rpc # "init" =>
          IF strategy \in DOMAIN ValidStrategies
          THEN /\ \A i \in 1..Len(failed) : ~Includes(failed[i], "Invalid forking strategy")
               /\ \A i \in 1..Len(forkCalls) :
                     forkCalls[i].request.fork_strategy = ValidStrategies[strategy]
               /\ (failed = <<>> => Len(forkCalls) = 1)
          ELSE /\ rpc = "done"
               /\ Len(failed) = 1
               /\ Includes(failed[1], strategy)
               /\ forkCalls = <<>>
               /\ waitCalls = <<>>
               /\ pc = "idle"
               /\ issued = 0

\* an unknown strategy has been rejected by name
C9_Witness ==
    /\ rpc = "done"
    /\ inputs["forking-strategy"] = "invalid-strategy"
    /\ failed = <<"Invalid forking strategy: invalid-strategy. Must be one of: now, last-snapshot, timestamp">>
    /\ forkCalls = <<>>

\* C10: with the strategy 'timestamp', an empty timestamp input makes run()
\* fail with an error that says the input is required, without any call of
\* forkService; a non-empty one puts fork_strategy = PITR and target_time =
\* the input into the one request passed to forkService.
C10_TimestampStrategy ==
    (rpc # "init" /\ inputs["forking-strategy"] \in {"timestamp", "TimeStamp"}) =>
        IF inputs.timestamp = ""
        THEN /\ rpc = "done"
             /\ Len(failed) = 1
             /\ Includes(failed[1], "required")
             /\ forkCalls = <<>>
        ELSE /\ Len(forkCalls) = 1
             /\ forkCalls[1].request.fork_strategy = "PITR"
             /\ "target_time" \in DOMAIN forkCalls[1].request
             /\ forkCalls[1].request.target_time = inputs.timestamp
             /\ forkRequest = forkCalls[1].request

\* a point-in-time fork has been requested
C10_Witness ==
    /\ rpc = "await_forkService"
    /\ inputs["forking-strategy"] = "TimeStamp"
    /\ inputs.timestamp = "2025-10-01T15:29:00Z"
    /\ Len(forkCalls) = 1
    /\ forkCalls[1].request.target_time = "2025-10-01T15:29:00Z"

\* the number of core.warning calls in a log
WarningsIn(log) == Len(SelectSeq(log, LAMBDA entry : entry.level = "warning"))

\* the value of the last core.setOutput call under a name, or Undefined
OutputOf(name) ==
    LET set == {i \in 1..Len(outputs) : outputs[i].name = name}
    IN  IF set = {} THEN Undefined
        ELSE outputs[CHOOSE i \in set : \A j \in set : j <= i].value

\* the messages forkService can reject with
ForkErrorMessages ==
    {ForkService(inputs.project_id, inputs.service_id, reply).message :
        reply \in {r \in ForkReplies : ~ForkService(inputs.project_id, inputs.service_id, r).ok}}

\* C11: with the strategy now or last-snapshot and a non-empty timestamp
\* input, run() logs exactly one warning before it calls forkService, the
\* advisory that the input is ignored, the one request passed to forkService
\* has no target_time key, and no failure of the run mentions the timestamp.
C11_TimestampIgnoredWithAdvisory ==
    (rpc # "init" /\ inputs["forking-strategy"] \in {"now", "NOW", "Last-Snapshot"}
                  /\ inputs.timestamp # "") =>
        /\ Len(forkCalls) = 1
        /\ "target_time" \notin DOMAIN forkCalls[1].request
        /\ "target_time" \notin DOMAIN forkRequest
        /\ \A i \in 1..Len(failed) : ~Includes(failed[i], "timestamp")
        /\ rpc = "await_forkService" =>
              /\ WarningsIn(emitted) = 1
              /\ \E i \in 1..Len(emitted) : emitted[i] = Log("warning", TimestampIgnoredMessage)
              /\ failed = <<>>

\* last-snapshot with a timestamp: the fork is requested without target_time
C11_Witness ==
    /\ rpc = "await_forkService"
    /\ inputs["forking-strategy"] = "Last-Snapshot"
    /\ inputs.timestamp = "2025-10-01T15:29:00Z"
    /\ forkCalls[1].request = [fork_strategy |-> "LAST_SNAPSHOT"]
    /\ WarningsIn(emitted) = 1

\* C12: a non-empty cpu_millis or memory_gbs input, numeric or 'shared', is in
\* the request passed to forkService as that same string.
C12_SizesPassedAsGiven ==
    \A i \in 1..Len(forkCalls) : \A key \in {"cpu_millis", "memory_gbs"} :
        inputs[key] # "" =>
            /\ key \in DOMAIN forkCalls[i].request
            /\ Includes(StringifyRequest(forkCalls[i].request),
                        "\"" \o key \o "\": \"" \o inputs[key] \o "\"")

\* C13: an optional input (name, cpu_millis, memory_gbs, timestamp) that is
\* empty leaves no key in the request passed to forkService, and with every
\* optional input empty and a strategy other than timestamp the request is
\* exactly {fork_strategy}.
C13_EmptyOptionalsAreAbsent ==
    \A i \in 1..Len(forkCalls) :
        LET request == forkCalls[i].request
        IN  /\ inputs.name = "" => "name" \notin DOMAIN request
            /\ inputs.cpu_millis = "" => "cpu_millis" \notin DOMAIN request
            /\ inputs.memory_gbs = "" => "memory_gbs" \notin DOMAIN request
            /\ inputs.timestamp = "" => "target_time" \notin DOMAIN request
            /\ (/\ inputs.name = "" /\ inputs.cpu_millis = "" /\ inputs.memory_gbs = ""
                /\ inputs.timestamp = "" /\ inputs.free = "") =>
                  /\ DOMAIN request = {"fork_strategy"}
                  /\ request.fork_strategy = ValidStrategies[inputs["forking-strategy"]]

\* nothing optional given: the request is {fork_strategy: NOW}
C13_Witness ==
    /\ rpc = "await_forkService"
    /\ inputs = BaseInputs
    /\ Len(forkCalls) = 1
    /\ forkCalls[1].request = [fork_strategy |-> "NOW"]

\* C14: forkService is called at most once and waitForServiceReady at most
\* once, the latter only with a resolved fork at hand and with the input
\* project id, the service id of the fork response (not the parent's) and
\* the input API key; without a resolved fork no poll was started and no
\* status query issued.
C14_ForkOnceThenPollTheFork ==
    /\ Len(forkCalls) <= 1
    /\ Len(waitCalls) <= 1
    /\ Len(waitCalls) = 1 =>
          /\ Len(forkCalls) = 1
          /\ forkedService # NoService
          /\ waitCalls[1] = [projectId |-> inputs.project_id,
                             serviceId |-> forkedService.service_id,
                             apiKey |-> inputs.api_key]
          /\ waitCalls[1].serviceId # inputs.service_id
          /\ pollArgs = waitCalls[1]
    /\ forkedService = NoService =>
          (waitCalls = <<>> /\ pc = "idle" /\ issued = 0)
    /\ rpc \in {"init", "await_forkService"} => forkedService = NoService

\* the poll of the forked service, with its second status query issued
C14_Witness ==
    /\ rpc = "await_poll"
    /\ Len(forkCalls) = 1
    /\ waitCalls = <<[projectId |-> "project-456", serviceId |-> "forked-service-123",
                      apiKey |-> "public-key:secret-key"]>>
    /\ issued = 2

\* C15: setFailed is called at most once, and never in a run that emitted an
\* output.
C15_FailureExcludesOutputs ==
    /\ Len(failed) <= 1
    /\ ~(failed # <<>> /\ outputs # <<>>)

\* C16: a run that ended without failure on a fork response that carries a
\* name, an endpoint and an initial password has emitted service_id, name,
\* host, port and initial_password, each with the value of the response.
C16_FiveOutputs ==
    (/\ rpc = "done" /\ failed = <<>>
     /\ {"name", "endpoint", "initial_password"} \subseteq DOMAIN forkedService) =>
        /\ OutputOf("service_id") = forkedService.service_id
        /\ OutputOf("host") = forkedService.endpoint.host
        /\ OutputOf("port") = ToString(forkedService.endpoint.port)
        /\ OutputOf("initial_password") = forkedService.initial_password
        /\ OutputOf("name") = forkedService.name

\* C17: a rejected forkService is not called again and the run fails with
\* exactly the message of the rejection; a rejected waitForServiceReady
\* makes the run fail with exactly the message it rejected with.
C17_ErrorsSurfaceVerbatim ==
    /\ Len(forkCalls) <= 1
    /\ (rpc = "done" /\ Len(forkCalls) = 1 /\ forkedService = NoService) =>
          /\ Len(failed) = 1
          /\ failed[1] \in ForkErrorMessages
    /\ (rpc = "done" /\ pc = "thrown") => failed = <<pollError>>

\* the fork was refused: one call, the API's message reported as it is
C17_Witness ==
    /\ rpc = "done"
    /\ Len(forkCalls) = 1
    /\ forkedService = NoService
    /\ failed = <<"API Error (401): Unauthorized">>

-----------------------------------------------------------------------------
(* Properties of the teardown phase, checked under SpecPost *)

\* the delete call was made and post() ended without logging its success
DeleteFailed ==
    /\ ppc = "done"
    /\ Len(deleteCalls) = 1
    /\ \A i \in 1..Len(postLog) : ~Includes(postLog[i].message, "Successfully deleted")

\* the messages deleteService can reject with
DeleteErrorMessages ==
    {DeleteService(state.project_id, state.forked_service_id, reply).message :
        reply \in {r \in DeleteReplies :
                      ~DeleteService(state.project_id, state.forked_service_id, r).ok}}

\* C18: with a persisted cleanup flag that is absent or anything but 'true',
\* post() ends at once: no deleteService call, no warning, no setFailed.
C18_CleanupOffIsNoOp ==
    (ppc # "init" /\ state.cleanup # "true") =>
        /\ ppc = "done"
        /\ deleteCalls = <<>>
        /\ WarningsIn(postLog) = 0
        /\ failed = <<>>

\* the flag 'True' with everything else persisted: nothing is deleted
C18_Witness ==
    /\ ppc = "done"
    /\ state = [cleanup |-> "True", forked_service_id |-> "forked-service-123",
                project_id |-> "project-456", api_key |-> "public-key:secret-key"]
    /\ deleteCalls = <<>>
    /\ postLog = <<Log("info", "Cleanup not enabled, skipping service deletion.")>>

\* C19: with the flag 'true' and the forked service id, the project id or
\* the API key empty, post() ends at once with exactly one warning, no
\* deleteService call and no setFailed.
C19_MissingStateWarnsOnly ==
    (/\ ppc # "init" /\ state.cleanup = "true"
     /\ (state.forked_service_id = "" \/ state.project_id = "" \/ state.api_key = "")) =>
        /\ ppc = "done"
        /\ WarningsIn(postLog) = 1
        /\ Len(postLog) = 1
        /\ deleteCalls = <<>>
        /\ failed = <<>>

\* only the API key is missing
C19_Witness ==
    /\ ppc = "done"
    /\ state = [cleanup |-> "true", forked_service_id |-> "forked-service-123",
                project_id |-> "project-456", api_key |-> ""]
    /\ deleteCalls = <<>>
    /\ WarningsIn(postLog) = 1

\* C20: post() never calls setFailed and always ends by returning; after a
\* rejected deleteService it has logged exactly one warning, which carries
\* the message of the rejection, and deleteService is called at most once.
C20_TeardownNeverFails ==
    /\ failed = <<>>
    /\ ppc \in {"init", "await_deleteService", "done"}
    /\ Len(deleteCalls) <= 1
    /\ DeleteFailed =>
          /\ WarningsIn(postLog) = 1
          /\ postLog[Len(postLog)].level = "warning"
          /\ \E message \in DeleteErrorMessages :
                Includes(postLog[Len(postLog)].message, message)

\* the delete came back 404: one warning with the API's message
C20_Witness ==
    /\ DeleteFailed
    /\ failed = <<>>
    /\ postLog[Len(postLog)] =
          Log("warning", "Failed to cleanup forked service: API Error (NOT_FOUND): service not found")

\* C21: post() issues at most one delete request, a rejected one is not sent
\* again (once the failure is logged post() has returned), and post() starts
\* no poll: no waitForServiceReady call, no status query, no sleep timer.
C21_OneDeleteNoPoll ==
    /\ Len(deleteCalls) <= 1
    /\ (\E i \in 1..Len(postLog) : Includes(postLog[i].message, "Failed to cleanup")) =>
          (ppc = "done" /\ Len(deleteCalls) = 1)
    /\ pc = "idle"
    /\ waitCalls = <<>>
    /\ issued = 0
    /\ settled = 0
    /\ timers = 0

\* the delete request failed on the network: one call, no query, post() over
C21_Witness ==
    /\ DeleteFailed
    /\ Includes(postLog[Len(postLog)].message, "Network request failed for DELETE")
    /\ Len(deleteCalls) = 1
    /\ issued = 0

-----------------------------------------------------------------------------
(* Properties of run() followed by post(), checked under Spec *)

\* the delete call that belongs to the fork of this run
CleanupTarget ==
    [projectId |-> inputs.project_id, serviceId |-> Get(forkedService, "service_id"),
     apiKey |-> inputs.api_key]

\* the names of the core.saveState calls, in order
SavedNames == [i \in 1..Len(savedState) |-> savedState[i].name]

\* C22: a run that ends without failure with the cleanup input 'true' in any
\* letter case has saved the forked service id, the project id, the API key
\* and the flag 'true', and post() on that state makes exactly one delete
\* call, for that project, the forked service (not the parent) and that key;
\* with any other cleanup input nothing is saved and nothing deleted.
C22_CleanupStateRoundTrip ==
    LET requested == ToLowerCase(inputs.cleanup) = "true"
    IN  /\ (rpc = "done" /\ failed = <<>> /\ requested) =>
              /\ Len(savedState) = 4
              /\ GetState(savedState, "forked_service_id") = forkedService.service_id
              /\ GetState(savedState, "project_id") = inputs.project_id
              /\ GetState(savedState, "api_key") = inputs.api_key
              /\ GetState(savedState, "cleanup") = "true"
              /\ ppc \in {"await_deleteService", "done"} =>
                    /\ deleteCalls = <<CleanupTarget>>
                    /\ deleteCalls[1].serviceId # inputs.service_id
        /\ ~requested => (savedState = <<>> /\ deleteCalls = <<>>)

\* cleanup 'TRUE': the fork of the run has been deleted by post()
C22_Witness ==
    /\ ppc = "done"
    /\ inputs.cleanup = "TRUE"
    /\ deleteCalls = <<[projectId |-> "project-456", serviceId |-> "forked-service-123",
                        apiKey |-> "public-key:secret-key"]>>
    /\ postLog[Len(postLog)] =
          Log("info", "Successfully deleted forked service: forked-service-123")

-----------------------------------------------------------------------------
(* More properties of the poller, checked under SpecPoll and SpecPollFair *)

\* the number of progress lines in a log
ProgressIn(log) ==
    Len(SelectSeq(log, LAMBDA entry : Includes(entry.message, "Still waiting")))

\* C23: the log checkpoint is startTime + k * logIntervalMs with k one more
\* than the number of progress lines logged so far, so each progress line
\* moves it by one logIntervalMs; an iteration logs at most one progress line,
\* and the k-th progress line is logged no earlier than
\* startTime + k * logIntervalMs.
C23_CheckpointCadence ==
    pc # "idle" =>
        /\ nextLogTime = startTime + (h.progress + 1) * logIntervalMs
        /\ ProgressIn(emitted) <= 1
        /\ h.progress <= settled
        /\ ProgressIn(emitted) = 1 =>
              (h.progress >= 1 /\ clock >= startTime + h.progress * logIntervalMs)

\* two progress lines logged, the checkpoint at startTime + 3 * logIntervalMs
\* and not ahead of the clock
C23_Witness ==
    /\ pc = "await_sleep"
    /\ h.progress = 2
    /\ ProgressIn(emitted) = 1
    /\ nextLogTime = startTime + 3 * logIntervalMs
    /\ clock >= nextLogTime

\* C24: a poll issues at most floor(timeoutMs / intervalMs) + 1 status
\* queries, and it ends: it returns or it throws.
C24_PollTerminatesWithinBudget ==
    /\ [](pc # "idle" => issued <= (timeoutMs \div intervalMs) + 1)
    /\ <>(pc \in {"returned", "thrown"})

\* the timeout after floor(3 / 1) + 1 = 4 queries
C24_Witness ==
    /\ pc = "thrown"
    /\ h.end.kind = "deadline"
    /\ timeoutMs = 3
    /\ intervalMs = 1
    /\ issued = 4

\* C25: an iteration issues its status query exactly when the time read at
\* its start is within startTime + timeoutMs, the deadline itself included;
\* and whatever the clock says when the query settles, READY makes the poll
\* return and DELETED or UNSTABLE make it fail with the terminal-state error.
C25_DeadlineReadAtLoopTopOnly ==
    pc # "idle" =>
        /\ h.iterQueries = 1 <=> now - startTime <= timeoutMs
        /\ h.lastStatus = "READY" => pc = "returned"
        /\ h.lastStatus \in {"DELETED", "UNSTABLE"} =>
              (pc = "thrown" /\ pollError = TerminalMessage(pollArgs.serviceId, h.lastStatus))

\* a query issued at elapsed = timeoutMs returns READY after the deadline
C25_Witness ==
    /\ pc = "returned"
    /\ timeoutMs >= 1
    /\ now - startTime = timeoutMs
    /\ clock > startTime + timeoutMs
    /\ h.lastStatus = "READY"

-----------------------------------------------------------------------------
(* Properties of the transport, checked under SpecTransport *)

\* C26: for a non-2xx response, a body that is JSON with a message gives the
\* error 'API Error (code or status): message'; any other body gives an error
\* with the response status and the first 500 characters of the body, and no
\* more of it.
C26_ErrorCarriesStatusAndExcerpt ==
    LET reply == call.reply
    IN  (settlement.settled /\ reply.network = "" /\ ~ResponseOk(reply.status)) =>
            /\ ~settlement.ok
            /\ IF reply.isJson /\ Truthy(Get(reply.json, "message"))
               THEN settlement.message =
                       "API Error ("
                          \o (IF Truthy(Get(reply.json, "code")) THEN reply.json.code
                              ELSE ToString(reply.status))
                          \o "): " \o reply.json.message
               ELSE /\ Includes(settlement.message, ToString(reply.status))
                    /\ Includes(settlement.message, Substring500(reply.text))
                    /\ Len(reply.text) > 500 => ~Includes(settlement.message, reply.text)

-----------------------------------------------------------------------------
(* Properties of the credential, checked under Spec *)

\* C27: while the initial password of the fork response is not registered
\* with setSecret, run() and the poller log nothing.
C27_NoLogBeforeSetSecret ==
    LET password == Get(forkedService, "initial_password")
    IN  (Truthy(password) /\ password \notin secrets) => emitted = <<>>

\* C28: an initial_password output carries the password of the fork response,
\* which setSecret had registered when the output was set; no log line
\* contains the password; and without a password in the fork response there
\* is neither a secret nor an initial_password output.
C28_PasswordMaskedBeforeOutput ==
    LET password == Get(forkedService, "initial_password")
    IN  /\ \A i \in 1..Len(outputs) :
              outputs[i].name = "initial_password" =>
                  /\ outputs[i].value = password
                  /\ outputs[i].masked
                  /\ outputs[i].value \in secrets
        /\ Truthy(password) =>
              \A i \in 1..Len(emitted) : ~Includes(emitted[i].message, password)
        /\ ~Truthy(password) =>
              (secrets = {} /\ OutputOf("initial_password") = Undefined)

\* the password is an output and a secret
C28_Witness ==
    /\ rpc = "done"
    /\ secrets = {"test-password-123"}
    /\ \E i \in 1..Len(outputs) :
          outputs[i] = [name |-> "initial_password", value |-> "test-password-123",
                        masked |-> TRUE]

-----------------------------------------------------------------------------
(* Properties of the persisted state, checked under Spec *)

\* C29: state is saved only in a run whose fork resolved and whose poll
\* returned; after a fork whose poll threw nothing is saved, whatever the
\* cleanup input, and post() reads no flag and makes no delete call.
C29_NothingPersistedUnlessPollSucceeded ==
    /\ savedState # <<>> =>
          (forkedService # NoService /\ pc = "returned" /\ failed = <<>>)
    /\ (forkedService # NoService /\ pc = "thrown") =>
          /\ savedState = <<>>
          /\ deleteCalls = <<>>
          /\ ppc # "idle" => state.cleanup = ""

\* cleanup requested, the fork created, the poll failed: post() deleted nothing
C29_Witness ==
    /\ inputs.cleanup = "true"
    /\ forkedService # NoService
    /\ pc = "thrown"
    /\ Len(failed) = 1
    /\ ppc = "done"
    /\ savedState = <<>>
    /\ deleteCalls = <<>>

\* C30: the saved entries are none or forked_service_id, project_id, api_key,
\* cleanup in that order, each once; post() saves nothing; and when post()
\* reads the flag 'true' it reads the three values the same run saved.
C30_PersistedEntriesOrdered ==
    /\ [](\/ savedState = <<>>
          \/ SavedNames = <<"forked_service_id", "project_id", "api_key", "cleanup">>)
    /\ []((ppc # "idle" /\ state.cleanup = "true") =>
             /\ Len(savedState) = 4
             /\ state.forked_service_id = ToCommandValue(Get(forkedService, "service_id"))
             /\ state.project_id = inputs.project_id
             /\ state.api_key = inputs.api_key)
    /\ [][ppc # "idle" => savedState' = savedState]_vars

\* post() has been handed the four entries of the run
C30_Witness ==
    /\ ppc = "init"
    /\ Len(savedState) = 4
    /\ savedState[4] = [name |-> "cleanup", value |-> "true"]
    /\ state.cleanup = "true"
    /\ state.forked_service_id = "forked-service-123"

-----------------------------------------------------------------------------
(* Where the outputs come from, checked under Spec *)

-----------------------------------------------------------------------------
(* The log checkpoint and failed queries, checked under SpecPoll *)

\* C32: the step in which a status query fails leaves the log checkpoint
\* where it is and logs no progress line: it logs the retry warning, or
\* nothing when the error is rethrown; and the checkpoint moves, by one
\* logIntervalMs, only in a step in which a query resolves with a status that
\* is neither READY nor terminal, at or after the checkpoint time.
C32_FailedQueryLeavesCheckpoint ==
    /\ [][h'.failures > h.failures =>
             /\ nextLogTime' = nextLogTime
             /\ h'.progress = h.progress
             /\ ProgressIn(emitted') = 0
             /\ \/ emitted' = <<Log("warning", RetryMessage(h'.lastError))>>
                \/ (pc' = "thrown" /\ emitted' = <<>>)]_vars
    /\ [][(pc # "idle" /\ nextLogTime' # nextLogTime) =>
             /\ pc = "await_getService"
             /\ settled' = settled + 1
             /\ h'.failures = h.failures
             /\ h'.lastError = ""
             /\ Observed(h'.lastStatus) = "none"
             /\ h'.lastStatus \notin TERMINAL_ERROR_STATES
             /\ clock' >= nextLogTime
             /\ nextLogTime' = nextLogTime + logIntervalMs]_vars

\* a query failed after the checkpoint time: a warning, no progress line, the
\* checkpoint still one logIntervalMs after the start
C32_Witness ==
    /\ pc = "await_sleep"
    /\ h.failures >= 1
    /\ h.lastError # ""
    /\ h.progress = 0
    /\ clock >= nextLogTime
    /\ nextLogTime = startTime + logIntervalMs
    /\ emitted = <<Log("warning", RetryMessage(h.lastError))>>

====
